---- MODULE Spec2Model ----
(***************************************************************************)
(* Model of the emporia usage-reading resource: the FastAPI handlers of    *)
(* src/src/api/emporia.py over the table and schemas of                    *)
(* src/src/models/emporia.py.                                              *)
(*                                                                         *)
(* Spec     : every handler runs to completion before the next request     *)
(*            (one action per handler, request validation included).       *)
(* ConcSpec : the mutating handlers are split at their database round      *)
(*            trips (lookup, commit, refresh) and run by several workers.  *)
(***************************************************************************)
EXTENDS Integers, Sequences, FiniteSets, TLC

VARIABLES
    table,    \* the emporia table: the rows, in the order an unordered SELECT yields them
    nextId,   \* the autoincrement counter behind Emporia.id
    now,      \* the last reading of the server clock, datetime.now(UTC)
    req,      \* the request handled last
    resp,     \* the response to it
    issued,   \* history: the ids of all rows ever inserted
    born,     \* history: the create_date each stored row was inserted with
    gone,     \* history: ids deleted with no create since
    deleted,  \* history: ids whose delete committed and that no insert has used since
    sess      \* per worker: the SQLAlchemy session of the handler it is running

vars == <<table, nextId, now, req, resp, issued, born, gone, deleted, sess>>

----------------------------------------------------------------------------
(* Bounds of the model *)

MaxRows == 2    \* rows the table may hold at once
MaxId   == MaxRows + 1    \* ids the autoincrement counter may hand out
MaxTime == 1    \* clock readings 0..MaxTime
MaxPage == MaxRows        \* largest page number requested
NumProcs == 2   \* workers of ConcSpec

(* Program constants *)

LimitMax == 100     \* Query(10, ge=1, le=100)
PageMin  == 1       \* Query(1, ge=1)
LimitMin == 1       \* Query(10, ge=1, le=100)

Ids    == 1..MaxId
Procs  == 1..NumProcs
Pages  == 0..MaxPage
Limits == {0, 1, LimitMax, LimitMax + 1}

Min(a, b) == IF a < b THEN a ELSE b

----------------------------------------------------------------------------
(* Schemas: src/src/models/emporia.py *)

\* EmporiaCreate: the eight fields, all required
WriteFields ==
    {"instant", "scale", "device_id", "channel_num", "name", "usage", "unit", "percentage"}

\* EmporiaSearch: the same fields, all optional, plus start_date and end_date
SearchFields == WriteFields \cup {"start_date", "end_date"}

\* Emporia: the columns of the table
Columns == {"id"} \cup WriteFields \cup {"create_date", "update_date"}

\* The values request bodies carry: two readings that differ in every field.
ValuesA ==
    [instant |-> 1, scale |-> "1D", device_id |-> 1, channel_num |-> "1", name |-> "a",
     usage |-> 10, unit |-> "KilowattHours", percentage |-> 50]
ValuesB ==
    [instant |-> 2, scale |-> "1H", device_id |-> 2, channel_num |-> "1,2", name |-> "b",
     usage |-> 20, unit |-> "WattHours", percentage |-> 100]

\* A parsed JSON body: the values it carries and the set of fields it states.
\* A body sent to create, replace or patch states all eight fields, only
\* device_id, two fields, or none.
WriteBodies ==
    [vals : {ValuesA, ValuesB}, set : {WriteFields}]
    \cup [vals : {ValuesB}, set : {{"device_id"}, {"instant", "name"}, {}}]

\* A search body: the values of a reading and the bounds of a range of instants
SearchValues ==
    {[f \in SearchFields |->
        CASE f = "start_date" -> 2
          [] f = "end_date" -> 2
          [] OTHER -> w[f]] : w \in {ValuesA, ValuesB}}

SearchBodies ==
    [vals : SearchValues,
     set  : {{}, {"device_id"}, {"device_id", "start_date"}, {"start_date", "end_date"}}]

\* The bodies of the update requests that run concurrently
ConcBodies == [vals : {ValuesB}, set : {WriteFields, {"device_id"}}]

NoBody == [vals |-> ValuesA, set |-> {}]

\* pydantic validation of a body against EmporiaCreate: every field is required
EmporiaCreate_valid(body) == \A f \in WriteFields : f \in body.set

\* BaseModel.model_dump(exclude_unset=...): the keys of the dumped mapping
model_dump(body, fields, exclude_unset) ==
    IF exclude_unset THEN body.set \cap fields ELSE fields

----------------------------------------------------------------------------
(* Requests and responses *)

Request(op, id, body, page, limit) ==
    [op |-> op, id |-> id, body |-> body, page |-> page, limit |-> limit]

\* serialize_sqlalchemy_obj: every column of the row, by name
serialize_sqlalchemy_obj(obj) == [c \in Columns |-> obj[c]]

Ok(rows)       == [status |-> 200, rows |-> rows, detail |-> "ok", id |-> 0]
Deleted(id)    == [status |-> 200, rows |-> <<>>, detail |-> "deleted successfully", id |-> id]
NotFound(id)   == [status |-> 404, rows |-> <<>>, detail |-> "not found", id |-> id]
Invalid        == [status |-> 422, rows |-> <<>>, detail |-> "validation error", id |-> 0]
ServerError    == [status |-> 500, rows |-> <<>>, detail |-> "Internal server error", id |-> 0]

----------------------------------------------------------------------------
(* The table *)

TableIds == {table[i].id : i \in 1..Len(table)}

\* db.query(Emporia).filter(Emporia.id == id).first(): the position of the row, 0 if none
Lookup(t, id) ==
    IF \E i \in 1..Len(t) : t[i].id = id
    THEN CHOOSE i \in 1..Len(t) : t[i].id = id
    ELSE 0

RemoveAt(t, i) == SubSeq(t, 1, i - 1) \o SubSeq(t, i + 1, Len(t))

\* An UPDATE leaves the row in place or, on a store that writes a new row
\* version, moves it to the end of the unordered scan.
Updated(t, i, row, moved) ==
    IF moved THEN Append(RemoveAt(t, i), row) ELSE [t EXCEPT ![i] = row]

\* datetime.now(UTC): a reading not before the last one
ClockReadings(t) == t..Min(t + 1, MaxTime)

\* for key, value in data.items(): setattr(record, key, value)
SetAttrs(record, body, keys) ==
    [c \in Columns |-> IF c \in keys THEN body.vals[c] ELSE record[c]]

\* A row no session has loaded
NoRow == [c \in Columns |-> 0]

IdleSession ==
    [pc |-> "idle", op |-> "none", id |-> 0, body |-> NoBody, loaded |-> NoRow, record |-> NoRow]

Init ==
    /\ table = <<>>
    /\ nextId = 1
    /\ now = 0
    /\ req = Request("none", 0, NoBody, 0, 0)
    /\ resp = Ok(<<>>)
    /\ issued = {}
    /\ born = {}
    /\ gone = {}
    /\ deleted = {}
    /\ sess = [p \in Procs |-> IdleSession]

----------------------------------------------------------------------------
(* Handlers, each run to completion: src/src/api/emporia.py *)

\* Query(1, ge=1) and Query(10, ge=1, le=100)
ListParamsValid(page, limit) == page >= PageMin /\ limit >= LimitMin /\ limit <= LimitMax

ListOffsetNoMinusOne(page, limit) == page * limit

\* offset = (page - 1) * limit
ListOffset(page, limit) == (page - 1) * limit

\* db.query(Emporia).offset(offset).limit(limit).all()
OffsetLimit(t, offset, limit) == SubSeq(t, offset + 1, Min(offset + limit, Len(t)))

Serialized(rows) == [i \in 1..Len(rows) |-> serialize_sqlalchemy_obj(rows[i])]

list_emporia ==
    \E page \in Pages, limit \in Limits :
        /\ req' = Request("list", 0, NoBody, page, limit)
        /\ resp' = IF ListParamsValid(page, limit)
                   THEN Ok(Serialized(OffsetLimit(table, ListOffset(page, limit), limit)))
                   ELSE Invalid
        /\ UNCHANGED <<table, nextId, now, issued, born, gone, deleted, sess>>

\* The value the store gives the id column of an inserted row
AutoIncrement == nextId

NewRecordCountId(body, t1, t2) ==
    [c \in Columns |->
        CASE c = "id" -> Len(table) + 1
          [] c = "create_date" -> t1
          [] c = "update_date" -> t2
          [] OTHER -> body.vals[c]]

\* new_record = Emporia(**data); create_date and update_date from two clock
\* readings; the id is left to the store (0: not set)
NewRecord(body, t1, t2) ==
    [c \in Columns |->
        CASE c = "id" -> 0
          [] c = "create_date" -> t1
          [] c = "update_date" -> t2
          [] c \in model_dump(body, WriteFields, TRUE) -> body.vals[c]
          [] OTHER -> 0]

\* db.add(new_record); db.commit(); db.refresh(new_record)
Inserted(row) == IF row.id = 0 THEN [row EXCEPT !.id = AutoIncrement] ELSE row

create_record ==
    \E body \in WriteBodies :
        /\ Len(table) < MaxRows
        /\ nextId <= MaxId
        /\ req' = Request("create", 0, body, 0, 0)
        /\ IF ~EmporiaCreate_valid(body)
           THEN /\ resp' = Invalid
                /\ UNCHANGED <<table, nextId, now, issued, born, gone, deleted, sess>>
           ELSE \E t1 \in ClockReadings(now) : \E t2 \in ClockReadings(t1) :
                  LET row == Inserted(NewRecord(body, t1, t2)) IN
                    /\ table' = Append(table, row)
                    /\ nextId' = nextId + 1
                    /\ now' = t2
                    /\ issued' = issued \cup {row.id}
                    /\ born' = {b \in born : b.id # row.id}
                                 \cup {[id |-> row.id, create_date |-> row.create_date]}
                    /\ gone' = {}
                    /\ deleted' = deleted \ {row.id}
                    /\ resp' = Ok(<<serialize_sqlalchemy_obj(row)>>)
                    /\ UNCHANGED sess

get_emporia_by_id ==
    \E id \in Ids :
        LET i == Lookup(table, id) IN
          /\ req' = Request("get", id, NoBody, 0, 0)
          /\ resp' = IF i = 0 THEN NotFound(id)
                     ELSE Ok(<<serialize_sqlalchemy_obj(table[i])>>)
          /\ UNCHANGED <<table, nextId, now, issued, born, gone, deleted, sess>>

ReplaceKeysUnset(body) == WriteFields \ {"usage"}

\* data = emporia_data.model_dump(exclude_unset=False)
ReplaceKeys(body) == model_dump(body, WriteFields, FALSE)

\* data = emporia_data.model_dump(exclude_unset=True)
PatchKeys(body) == model_dump(body, WriteFields, TRUE)

\* emporia_data: EmporiaCreate = Body(...) of update_emporia_partial
PatchBodyValid(body) == EmporiaCreate_valid(body)

RestampBoth(record, t) == [record EXCEPT !.update_date = t, !.create_date = t]

\* record.update_date = datetime.now(UTC)
Restamp(record, t) == [record EXCEPT !.update_date = t]

\* The part of the two update handlers after validation: lookup, setattr
\* loop, restamp, commit, refresh.
UpdateRow(id, body, keys) ==
    LET i == Lookup(table, id) IN
      IF i = 0
      THEN /\ resp' = NotFound(id)
           /\ UNCHANGED <<table, nextId, now, issued, born, gone, deleted, sess>>
      ELSE \E t \in ClockReadings(now) : \E moved \in BOOLEAN :
             LET rec == Restamp(SetAttrs(table[i], body, keys), t) IN
               /\ moved => rec # table[i]
               /\ table' = Updated(table, i, rec, moved)
               /\ now' = t
               /\ resp' = Ok(<<serialize_sqlalchemy_obj(rec)>>)
               /\ UNCHANGED <<nextId, issued, born, gone, deleted, sess>>

update_emporia_full ==
    \E id \in Ids, body \in WriteBodies :
        /\ req' = Request("put", id, body, 0, 0)
        /\ IF ~EmporiaCreate_valid(body)
           THEN /\ resp' = Invalid
                /\ UNCHANGED <<table, nextId, now, issued, born, gone, deleted, sess>>
           ELSE UpdateRow(id, body, ReplaceKeys(body))

update_emporia_partial ==
    \E id \in Ids, body \in WriteBodies :
        /\ req' = Request("patch", id, body, 0, 0)
        /\ IF ~PatchBodyValid(body)
           THEN /\ resp' = Invalid
                /\ UNCHANGED <<table, nextId, now, issued, born, gone, deleted, sess>>
           ELSE UpdateRow(id, body, PatchKeys(body))

delete_emporia ==
    \E id \in Ids :
        LET i == Lookup(table, id) IN
          /\ req' = Request("delete", id, NoBody, 0, 0)
          /\ IF i = 0
             THEN /\ resp' = NotFound(id)
                  /\ UNCHANGED <<table, born, gone, deleted>>
             ELSE /\ table' = RemoveAt(table, i)
                  /\ born' = {b \in born : b.id # id}
                  /\ gone' = gone \cup {id}
                  /\ deleted' = deleted \cup {id}
                  /\ resp' = Deleted(id)
          /\ UNCHANGED <<nextId, now, issued, sess>>

----------------------------------------------------------------------------
(* Search *)

\* Classes mapped to a table (subclasses of framework.db.Base): Emporia.
\* EmporiaCreate and EmporiaSearch are pydantic models.
MappedClasses == {"Emporia"}

\* The class search_emporia builds its filters on and hands to db.query
SearchEntity == "EmporiaSearch"

\* hasattr(cls, field): a mapped class has one attribute per column; a
\* pydantic model class has none for its fields
ClassHasAttr(cls, field) == cls \in MappedClasses /\ field \in Columns

\* The filters appended for the fields other than start_date and end_date
EqualityFilters(body) ==
    {f \in model_dump(body, SearchFields, TRUE) \ {"start_date", "end_date"} :
        ClassHasAttr(SearchEntity, f)}

\* An exception inside the try block: the attribute access of lines 235 and
\* 237, or db.query on a class that is not mapped
SearchRaises(body) ==
    \/ "start_date" \in body.set /\ ~ClassHasAttr(SearchEntity, "instant")
    \/ "end_date" \in body.set /\ ~ClassHasAttr(SearchEntity, "instant")
    \/ SearchEntity \notin MappedClasses

\* and_(*filters) on one row
SearchMatches(row, body) ==
    /\ "start_date" \in body.set => row.instant >= body.vals.start_date
    /\ "end_date" \in body.set => row.instant <= body.vals.end_date
    /\ \A f \in EqualityFilters(body) : row[f] = body.vals[f]

RECURSIVE InsertByInstant(_, _)
InsertByInstant(sorted, row) ==
    IF sorted = <<>> THEN <<row>>
    ELSE IF row.instant < Head(sorted).instant THEN <<row>> \o sorted
    ELSE <<Head(sorted)>> \o InsertByInstant(Tail(sorted), row)

\* query.order_by(asc(instant)).all()
RECURSIVE OrderByInstant(_)
OrderByInstant(rows) ==
    IF rows = <<>> THEN <<>>
    ELSE InsertByInstant(OrderByInstant(SubSeq(rows, 1, Len(rows) - 1)), rows[Len(rows)])

search_emporia ==
    \E body \in SearchBodies :
        /\ req' = Request("search", 0, body, 0, 0)
        /\ resp' = IF SearchRaises(body)
                   THEN ServerError
                   ELSE Ok(Serialized(OrderByInstant(
                            SelectSeq(table, LAMBDA row : SearchMatches(row, body)))))
        /\ UNCHANGED <<table, nextId, now, issued, born, gone, deleted, sess>>

----------------------------------------------------------------------------

Next ==
    \/ list_emporia
    \/ create_record
    \/ get_emporia_by_id
    \/ update_emporia_full
    \/ update_emporia_partial
    \/ delete_emporia
    \/ search_emporia

Spec == Init /\ [][Next]_vars

----------------------------------------------------------------------------
(* The mutating handlers, split at their database round trips.  Each worker *)
(* runs one handler at a time in a session of its own; a lookup sees the    *)
(* committed table, and db.commit() flushes and commits in one step.  No    *)
(* handler here reads the table in scan order, so an UPDATE leaves the row  *)
(* where it is; gone is the history of the handlers of Spec.                *)

\* try: record = db.query(Emporia).filter(Emporia.id == id).first(), the
\* setattr loop and the restamp; the changes stay in the session
begin_update(p) ==
    \E op \in {"put", "patch"}, id \in Ids, body \in ConcBodies :
        /\ sess[p].pc = "idle"
        /\ IF ~(IF op = "put" THEN EmporiaCreate_valid(body) ELSE PatchBodyValid(body))
           THEN /\ req' = Request(op, id, body, 0, 0)
                /\ resp' = Invalid
                /\ UNCHANGED <<now, sess>>
           ELSE LET i == Lookup(table, id) IN
                  IF i = 0
                  THEN /\ req' = Request(op, id, body, 0, 0)
                       /\ resp' = NotFound(id)
                       /\ UNCHANGED <<now, sess>>
                  ELSE \E t \in ClockReadings(now) :
                         LET keys == IF op = "put" THEN ReplaceKeys(body) ELSE PatchKeys(body)
                         IN /\ sess' = [sess EXCEPT ![p] =
                                  [pc |-> "dirty", op |-> op, id |-> id, body |-> body,
                                   loaded |-> table[i],
                                   record |-> Restamp(SetAttrs(table[i], body, keys), t)]]
                            /\ now' = t
                            /\ UNCHANGED <<req, resp>>
        /\ UNCHANGED <<table, nextId, issued, born, gone, deleted>>

\* The row an UPDATE of the changed columns leaves
Flushed(row, loaded, record) ==
    [c \in Columns |-> IF record[c] # loaded[c] THEN record[c] ELSE row[c]]

FlushUpdateUpsert(t, s) ==
    LET i == Lookup(t, s.id) IN
      IF i = 0 THEN Append(t, s.record)
      ELSE [t EXCEPT ![i] = Flushed(t[i], s.loaded, s.record)]

\* The flush of db.commit() in the update handlers: UPDATE emporia SET the
\* changed columns WHERE id = the loaded id.  No row matched is a
\* StaleDataError; the table is returned unchanged then.
FlushUpdate(t, s) ==
    LET i == Lookup(t, s.id) IN
      IF i = 0 THEN t
      ELSE [t EXCEPT ![i] = Flushed(t[i], s.loaded, s.record)]

\* db.commit() of update_emporia_full and update_emporia_partial, with the
\* except branch: db.rollback() and the 500 response
commit_update(p) ==
    LET s == sess[p] IN
      /\ s.pc = "dirty"
      /\ IF s.record = s.loaded
         THEN \* nothing to flush: the commit succeeds
              /\ sess' = [sess EXCEPT ![p].pc = "committed"]
              /\ UNCHANGED <<table, req, resp>>
         ELSE IF Lookup(FlushUpdate(table, s), s.id) = 0
              THEN /\ sess' = [sess EXCEPT ![p] = IdleSession]
                   /\ req' = Request(s.op, s.id, s.body, 0, 0)
                   /\ resp' = ServerError
                   /\ UNCHANGED table
              ELSE /\ table' = FlushUpdate(table, s)
                   /\ sess' = [sess EXCEPT ![p].pc = "committed"]
                   /\ UNCHANGED <<req, resp>>
      /\ UNCHANGED <<nextId, now, issued, born, gone, deleted>>

\* db.refresh(record); return serialize_sqlalchemy_obj(record)
refresh_update(p) ==
    LET s == sess[p]
        i == Lookup(table, s.id)
    IN /\ s.pc = "committed"
       /\ sess' = [sess EXCEPT ![p] = IdleSession]
       /\ req' = Request(s.op, s.id, s.body, 0, 0)
       /\ resp' = IF i = 0 THEN ServerError ELSE Ok(<<serialize_sqlalchemy_obj(table[i])>>)
       /\ UNCHANGED <<table, nextId, now, issued, born, gone, deleted>>

\* try: record = db.query(Emporia).filter(Emporia.id == id).first(); db.delete(record)
begin_delete(p) ==
    \E id \in Ids :
        LET i == Lookup(table, id) IN
          /\ sess[p].pc = "idle"
          /\ IF i = 0
             THEN /\ req' = Request("delete", id, NoBody, 0, 0)
                  /\ resp' = NotFound(id)
                  /\ UNCHANGED sess
             ELSE /\ sess' = [sess EXCEPT ![p] =
                        [pc |-> "deleting", op |-> "delete", id |-> id, body |-> NoBody,
                         loaded |-> NoRow, record |-> NoRow]]
                  /\ UNCHANGED <<req, resp>>
          /\ UNCHANGED <<table, nextId, now, issued, born, gone, deleted>>

\* db.commit() of delete_emporia: DELETE FROM emporia WHERE id = the loaded
\* id (a DELETE that matches no row only warns), then the confirmation
commit_delete(p) ==
    LET s == sess[p]
        i == Lookup(table, s.id)
    IN /\ s.pc = "deleting"
       /\ table' = IF i = 0 THEN table ELSE RemoveAt(table, i)
       /\ born' = {b \in born : b.id # s.id}
       /\ deleted' = deleted \cup {s.id}
       /\ sess' = [sess EXCEPT ![p] = IdleSession]
       /\ req' = Request("delete", s.id, NoBody, 0, 0)
       /\ resp' = Deleted(s.id)
       /\ UNCHANGED <<nextId, now, issued, gone>>

ConcNext ==
    \/ create_record
    \/ get_emporia_by_id
    \/ \E p \in Procs : begin_update(p)
    \/ \E p \in Procs : commit_update(p)
    \/ \E p \in Procs : refresh_update(p)
    \/ \E p \in Procs : begin_delete(p)
    \/ \E p \in Procs : commit_delete(p)

ConcSpec == Init /\ [][ConcNext]_vars

----------------------------------------------------------------------------
(* Properties.  Every action of Spec sets req and resp, so in a step of     *)
(* Spec req' is the request the step handled, the unprimed variables are    *)
(* the state before it and the primed ones the state after it.              *)

\* The stored row with this id (the id is stored)
Row(t, id) == t[Lookup(t, id)]

Stored(t, id) == Lookup(t, id) # 0

\* Every stored row with an id other than this one is the same in t and u
OthersSame(t, u, id) ==
    \A k \in 1..Len(t) :
        t[k].id # id => Stored(u, t[k].id) /\ Row(u, t[k].id) = t[k]

\* C1: patch of an existing id with a body that states only device_id
\* succeeds, stores that device_id, leaves the other fields of the record
\* and every other record as they were, and restamps update_date.
C1_PatchDeviceIdOnly ==
    [][(/\ req'.op = "patch"
        /\ req'.body.set = {"device_id"}
        /\ Stored(table, req'.id))
       => /\ resp'.status = 200
          /\ Stored(table', req'.id)
          /\ Row(table', req'.id).device_id = req'.body.vals.device_id
          /\ \A c \in Columns \ {"device_id", "update_date"} :
                Row(table', req'.id)[c] = Row(table, req'.id)[c]
          /\ Row(table', req'.id).update_date = now'
          /\ OthersSame(table, table', req'.id)]_vars

\* The filter the search contract describes, on one row
ContractMatches(row, body) ==
    /\ "start_date" \in body.set => row.instant >= body.vals.start_date
    /\ "end_date" \in body.set => row.instant <= body.vals.end_date
    /\ \A f \in body.set \ {"start_date", "end_date"} : row[f] = body.vals[f]

\* C2: search returns exactly the stored records that satisfy the
\* conjunction of the range bounds and the field equalities of the body, in
\* ascending order of instant; an empty body returns every record.
C2_SearchConjunctive ==
    req.op = "search" =>
        /\ resp.status = 200
        /\ Len(resp.rows) = Cardinality({k \in 1..Len(table) : ContractMatches(table[k], req.body)})
        /\ \A k \in 1..Len(table) :
              ContractMatches(table[k], req.body) =>
                  \E j \in 1..Len(resp.rows) : resp.rows[j] = table[k]
        /\ \A j \in 1..(Len(resp.rows) - 1) : resp.rows[j].instant <= resp.rows[j + 1].instant

\* A request whose body has the shape its operation takes: the Write shape
\* (all eight fields) for replace, the Partial shape (any of them) for patch
WellFormed(r) ==
    CASE r.op = "put" -> r.body.set = WriteFields
      [] r.op = "patch" -> r.body.set \subseteq WriteFields
      [] OTHER -> TRUE

\* C3: get, replace, patch and delete of an id that is not stored answer
\* 404 naming the id and leave the store unchanged, whatever the well-formed
\* body and whatever happened before.
C3_AbsentIdNotFound ==
    [][(/\ req'.op \in {"get", "put", "patch", "delete"}
        /\ WellFormed(req')
        /\ ~Stored(table, req'.id))
       => /\ resp' = NotFound(req'.id)
          /\ table' = table]_vars

\* C4: the id a successful create returns is not the id of a stored record
\* nor an id handed out before, deleted records included, and is greater
\* than all of them.
C4_IdsNeverReused ==
    [][(req'.op = "create" /\ resp'.status = 200)
       => /\ Len(resp'.rows) = 1
          /\ resp'.rows[1].id \notin TableIds
          /\ resp'.rows[1].id \notin issued
          /\ \A x \in issued \cup TableIds : x < resp'.rows[1].id
          /\ Stored(table', resp'.rows[1].id)]_vars

\* A create that follows the delete of an earlier record
C4_Witness ==
    /\ req.op = "create"
    /\ resp.status = 200
    /\ deleted # {}
    /\ \A x \in deleted : x < resp.rows[1].id

\* C5: the record a successful create returns and stores has create_date
\* equal to update_date.
C5_CreateDatesEqual ==
    (req.op = "create" /\ resp.status = 200)
    => /\ resp.rows[1].create_date = resp.rows[1].update_date
       /\ Row(table, resp.rows[1].id).create_date = Row(table, resp.rows[1].id).update_date

\* The eight Write-shape fields of the stored record equal the body
FieldsEqualBody(row, body) == \A f \in WriteFields : row[f] = body.vals[f]

\* C6 as stated: replace of an existing id with a valid body leaves the
\* eight fields equal to the body and update_date strictly greater than it
\* was before the call.
C6_ReplaceStrictlyGreater ==
    [][(/\ req'.op = "put"
        /\ req'.body.set = WriteFields
        /\ Stored(table, req'.id))
       => /\ Stored(table', req'.id)
          /\ FieldsEqualBody(Row(table', req'.id), req'.body)
          /\ Row(table', req'.id).update_date > Row(table, req'.id).update_date]_vars

\* C6 as amended: replace of an existing id with a valid body leaves the
\* eight fields equal to the body and update_date equal to the clock reading
\* of the call, which is not less than it was before the call.
C6_ReplaceFieldsAndStamp ==
    [][(/\ req'.op = "put"
        /\ req'.body.set = WriteFields
        /\ Stored(table, req'.id))
       => /\ resp'.status = 200
          /\ Stored(table', req'.id)
          /\ FieldsEqualBody(Row(table', req'.id), req'.body)
          /\ Row(table', req'.id).update_date = now'
          /\ Row(table', req'.id).update_date >= Row(table, req'.id).update_date
          /\ resp'.rows = <<Row(table', req'.id)>>]_vars

\* A replace that changed the fields of a record and stamped it later than
\* its creation
C6_Witness ==
    /\ req.op = "put"
    /\ resp.status = 200
    /\ Stored(table, req.id)
    /\ FieldsEqualBody(Row(table, req.id), req.body)
    /\ req.body.vals = ValuesB
    /\ Row(table, req.id).update_date > Row(table, req.id).create_date

\* C7: the first delete of a stored id answers 200 echoing the id; until
\* the next create, get, replace, patch and delete of that id answer 404
\* and no list or search result holds it.
C7_HardDelete ==
    [][/\ (req'.op = "delete" /\ Stored(table, req'.id))
            => resp' = Deleted(req'.id) /\ ~Stored(table', req'.id)
       /\ (/\ req'.op \in {"get", "put", "patch", "delete"}
           /\ WellFormed(req')
           /\ req'.id \in gone)
            => resp'.status = 404
       /\ req'.op \in {"list", "search"}
            => \A j \in 1..Len(resp'.rows) : resp'.rows[j].id \notin gone]_vars

\* C8: list with page p >= 1 and limit l in 1..100 returns the records at
\* positions (p-1)*l+1 .. p*l of the store's order, fewer or none when the
\* store ends earlier, and does not change the store.
C8_ListPage ==
    [][req'.op = "list"
       => /\ table' = table
          /\ (req'.page >= 1 /\ req'.limit >= 1 /\ req'.limit <= 100)
              => LET first == (req'.page - 1) * req'.limit + 1
                     last  == Min(req'.page * req'.limit, Len(table))
                 IN /\ resp'.status = 200
                    /\ Len(resp'.rows) = IF last >= first THEN last - first + 1 ELSE 0
                    /\ \A k \in 1..Len(resp'.rows) : resp'.rows[k] = table[first + k - 1]]_vars

\* The second page of one record each, of a store of two
C8_Witness ==
    /\ req.op = "list"
    /\ req.page = 2
    /\ req.limit = 1
    /\ Len(table) >= 2
    /\ resp.status = 200
    /\ resp.rows = <<table[2]>>

\* C9: every stored record has create_date <= update_date and the id and
\* the create_date it was created with.
C9_DatesAndIdentity ==
    /\ \A k \in 1..Len(table) :
          /\ table[k].create_date <= table[k].update_date
          /\ [id |-> table[k].id, create_date |-> table[k].create_date] \in born
    /\ \A k, m \in 1..Len(table) : table[k].id = table[m].id => k = m
    /\ Cardinality(born) = Len(table)

\* A patch that restamped a record later than its creation
C9_Witness ==
    /\ req.op = "patch"
    /\ resp.status = 200
    /\ Stored(table, req.id)
    /\ Row(table, req.id).update_date > Row(table, req.id).create_date
    /\ [id |-> req.id, create_date |-> Row(table, req.id).create_date] \in born

\* C10: once the delete of an id has committed, no stored record has that
\* id; an update handler that had read the record before ends in a 500
\* response without changing the table, and a get of the id answers 404.
C10_NoResurrection ==
    [][/\ \A k \in 1..Len(table') : table'[k].id \notin deleted'
       /\ \A p \in Procs :
            (/\ sess[p].pc \in {"dirty", "committed"}
             /\ sess[p].id \in deleted
             /\ sess'[p] # sess[p])
            => /\ table' = table
               /\ sess'[p].pc = "idle" => (resp'.status = 500 /\ req'.id = sess[p].id)
               /\ sess'[p].pc # "idle" => sess[p].record = sess[p].loaded
       /\ (sess' = sess /\ req'.op = "get" /\ req'.id \in deleted)
            => resp' = NotFound(req'.id)]_vars

\* An update that read the record, lost it to a delete and then failed at
\* its commit
C10_Witness ==
    /\ req.op \in {"put", "patch"}
    /\ resp.status = 500
    /\ req.id \in deleted
    /\ ~Stored(table, req.id)
    /\ \A p \in Procs : sess[p].pc = "idle"

====
